---- MODULE Spec2Model ----
(***************************************************************************)
(* Trading engine: the price broadcaster (market_sim.py), the per-strategy *)
(* evaluation units (strategy_engine.py, models.py) and the coordinator's  *)
(* shutdown sequence (main.py), as cooperating asyncio tasks.  An action   *)
(* is the code a task runs between two points where it can yield to the    *)
(* event loop.                                                             *)
(***************************************************************************)
EXTENDS Integers, Sequences, FiniteSets, TLC

VARIABLES
    cfg,             \* Strategy configuration fields (immutable after load)
    strat,           \* Strategy runtime fields: state, entry_price, exit_price, exit_reason, pnl
    exits,           \* per strategy: SELL orders built by _exit_position
    is_running,      \* MarketDataSimulator.is_running
    subKeys,         \* keys of MarketDataSimulator.subscribers, in insertion order
    subscribers,     \* MarketDataSimulator.subscribers: instrument -> set of queues
    current_prices,  \* MarketDataSimulator.current_prices
    queue,           \* asyncio.Queue contents, one queue per strategy unit
    putters,         \* asyncio.Queue._putters: producers blocked on a full queue, FIFO
    bpc,             \* position of the market_sim task (MarketDataSimulator.start)
    bSub,            \* state of the broadcaster's blocked put: "blocked" or "woken"
    bCancel,         \* a CancelledError is pending for the market_sim task
    bInstrs,         \* instruments left in the round (list(self.subscribers.keys()))
    bQueues,         \* queues left for the current tick (self.subscribers[i].copy())
    bTick,           \* the tick being broadcast
    rounds,          \* calls of _generate_and_broadcast_ticks so far
    gen,             \* per instrument: the round of the last tick generated for it
    rpc,             \* position of the strategy_engine task (StrategyEngine.run)
    active,          \* StrategyEngine.active_strategies
    upc,             \* position of each strategy unit (_run_strategy task)
    uCancel,         \* a CancelledError is pending for the unit
    consumed,        \* per unit: round of the last tick it dequeued (n); gen of its instrument (from) and
                     \* number of the latest round (at) when it subscribed
    spc,             \* position of TradingEngine.start / _shutdown
    shutdown_event,  \* TradingEngine.shutdown_event
    sIter,           \* iteration state of MarketDataSimulator.stop
    slog,            \* steps of the shutdown sequence, in the order they ran
    stats,           \* the dict get_statistics returned to _print_summary
    ev               \* a ConditionEvaluator call on its own: the text, the bindings, the results

vars == <<cfg, strat, exits, is_running, subKeys, subscribers, current_prices,
          queue, putters, bpc, bSub, bCancel, bInstrs, bQueues, bTick, rounds, gen,
          rpc, active, upc, uCancel, consumed, spc, shutdown_event, sIter, slog,
          stats, ev>>

-----------------------------------------------------------------------------
(* Bounds and scaled program constants *)

Strategies == {"s1", "s2"}
Instruments == {"NIFTY", "BANKNIFTY"}
\* the instrument names of a strategies file: those with a base price, and one without
Symbols == Instruments \cup {"GOLD"}

\* rounds of tick generation explored
MaxRounds == 3
\* capacity of a subscriber queue (the code's maxsize, scaled down)
QueueCap == 2
\* prices are whole units in a small range; the random walk moves at most one unit
Prices == 1..2
BasePrice == 1
\* an Optional[float] field that is None
NoPrice == 0

Walk(p) == {n \in Prices : n - p \in {-1, 0, 1}}

-----------------------------------------------------------------------------
(* models.py *)

NoTick == [instrument |-> "none", price |-> 0, seq |-> 0]
\* the None that stop() puts into every queue
Sentinel == [instrument |-> "None", price |-> 0, seq |-> 0]

MarketTick(i, p, n) == [instrument |-> i, price |-> p, seq |-> n]

NewStrategy == [state |-> "CREATED", entry_price |-> NoPrice, exit_price |-> NoPrice,
                exit_reason |-> "None", pnl |-> 0]

is_open(st) == st.state = "OPEN"

is_closed(st) == st.state \in {"CLOSED", "FORCE_CLOSED"}

\* the PnL of a short position: the sign flipped
pnl_short_side(st, c, price) ==
    IF st.entry_price = NoPrice THEN 0 ELSE (st.entry_price - price) * c.quantity

calculate_pnl(st, c, price) ==
    IF st.entry_price = NoPrice THEN 0 ELSE (price - st.entry_price) * c.quantity

\* enter() that forgets the price
enter_without_price(st, price) == [st EXCEPT !.state = "OPEN"]

enter(st, price) == [st EXCEPT !.state = "OPEN", !.entry_price = price]

\* exit() with the state left as it was on a market-close exit
exit_keeps_state(st, c, price, reason) ==
    [st EXCEPT !.exit_price = price,
               !.exit_reason = reason,
               !.pnl = calculate_pnl(st, c, price),
               !.state = IF reason = "MARKET_CLOSE" THEN @ ELSE "CLOSED"]

\* exit() with the state CLOSED whatever the reason
exit_always_closed(st, c, price, reason) ==
    [st EXCEPT !.exit_price = price,
               !.exit_reason = reason,
               !.pnl = calculate_pnl(st, c, price),
               !.state = "CLOSED"]

exit(st, c, price, reason) ==
    [st EXCEPT !.exit_price = price,
               !.exit_reason = reason,
               !.pnl = calculate_pnl(st, c, price),
               !.state = IF reason = "MARKET_CLOSE" THEN "FORCE_CLOSED" ELSE "CLOSED"]

\* mark_failed() that also records the reason ExitReason.ERROR
mark_failed_with_reason(st) == [st EXCEPT !.state = "FAILED", !.exit_reason = "ERROR"]

mark_failed(st) == [st EXCEPT !.state = "FAILED"]

-----------------------------------------------------------------------------
(* condition_eval.py: a condition is "<var> <op> <number>"; anything the    *)
(* safety filter rejects evaluates to False                                 *)

Cond(v, o, k) == [var |-> v, op |-> o, rhs |-> k]

\* no evaluator call under study
NoCall == [pc |-> "none"]

IsSafeExpression(c) == c.var \in {"price", "time"} /\ c.op \in {">", "<", ">=", "<=", "==", "!="}

\* datetime.now() as minutes since midnight, at the evaluations explored
Times == {920}

Evaluate(c, price, time) ==
    IF ~IsSafeExpression(c) THEN FALSE
    ELSE LET v == IF c.var = "price" THEN price ELSE time
         IN CASE c.op = ">"  -> v > c.rhs
              [] c.op = "<"  -> v < c.rhs
              [] c.op = ">=" -> v >= c.rhs
              [] c.op = "<=" -> v <= c.rhs
              [] c.op = "==" -> v = c.rhs
              [] OTHER       -> v # c.rhs

-----------------------------------------------------------------------------
(* condition_eval.py on the text of a condition.  A text is a sequence of   *)
(* characters; the texts explored separate their tokens by blanks and have  *)
(* no parentheses.                                                          *)

DigitChars == <<"0", "1", "2", "3", "4", "5", "6", "7", "8", "9">>

Letters == {"a", "b", "c", "d", "e", "f", "g", "h", "i", "j", "k", "l", "m",
            "n", "o", "p", "q", "r", "s", "t", "u", "v", "w", "x", "y", "z",
            "A", "D", "N", "O", "R"}

IsDigit(c) == \E d \in 1..Len(DigitChars) : DigitChars[d] = c

DigitVal(c) == (CHOOSE d \in 1..Len(DigitChars) : DigitChars[d] = c) - 1

RECURSIVE int(_)
\* int(t) for a text of digits
int(t) == IF t = <<>> THEN 0
          ELSE int(SubSeq(t, 1, Len(t) - 1)) * 10 + DigitVal(t[Len(t)])

RECURSIVE str(_)
\* str(n) for a natural number
str(n) == IF n < 10 THEN <<DigitChars[n + 1]>>
          ELSE str(n \div 10) \o <<DigitChars[(n % 10) + 1]>>

StartsWith(t, p) == Len(p) <= Len(t) /\ SubSeq(t, 1, Len(p)) = p

From(t, i) == SubSeq(t, i, Len(t))

\* the length of the match of \d{1,2}:\d{2} at the head of t; 0: no match
TimeMatch(t) ==
    LET dig(i) == i <= Len(t) /\ IsDigit(t[i])
        col(i) == i <= Len(t) /\ t[i] = ":"
    IN IF dig(1) /\ dig(2) /\ col(3) /\ dig(4) /\ dig(5) THEN 5
       ELSE IF dig(1) /\ col(2) /\ dig(3) /\ dig(4) THEN 4
       ELSE 0

\* repl of _normalize_time: m is the text matched, "h:mm" or "hh:mm"
repl(m) == LET k == Len(m) - 2
           IN str(int(SubSeq(m, 1, k - 1)) * 60 + int(From(m, k + 1)))

\* re.sub with count=1: only the first match is replaced
normalize_first_match(t) ==
    IF \E i \in 1..Len(t) : TimeMatch(From(t, i)) > 0
    THEN LET i == CHOOSE j \in 1..Len(t) :
                     TimeMatch(From(t, j)) > 0 /\ \A k \in 1..(j-1) : TimeMatch(From(t, k)) = 0
             n == TimeMatch(From(t, i))
         IN SubSeq(t, 1, i - 1) \o repl(SubSeq(t, i, i + n - 1)) \o From(t, i + n)
    ELSE t

RECURSIVE _normalize_time(_)
\* re.sub(r'(\d{1,2}:\d{2})', repl, t): the matches are taken from left to right
_normalize_time(t) ==
    IF t = <<>> THEN <<>>
    ELSE LET n == TimeMatch(t)
         IN IF n > 0
            THEN repl(SubSeq(t, 1, n)) \o _normalize_time(From(t, n + 1))
            ELSE <<Head(t)>> \o _normalize_time(Tail(t))

RECURSIVE replace(_, _, _)
\* str.replace(old, new)
replace(t, old, new) ==
    IF t = <<>> THEN <<>>
    ELSE IF StartsWith(t, old) THEN new \o replace(From(t, Len(old) + 1), old, new)
    ELSE <<Head(t)>> \o replace(Tail(t), old, new)

RECURSIVE DigitSpan(_)
\* the number of digits at the head of t
DigitSpan(t) == IF t # <<>> /\ IsDigit(Head(t)) THEN 1 + DigitSpan(Tail(t)) ELSE 0

RECURSIVE StripNumbers(_)
\* re.sub(r'\d+\.?\d*', '', t)
StripNumbers(t) ==
    IF t = <<>> THEN <<>>
    ELSE IF IsDigit(Head(t))
    THEN LET a == From(t, DigitSpan(t) + 1)
             b == IF a # <<>> /\ Head(a) = "." THEN Tail(a) ELSE a
         IN StripNumbers(From(b, DigitSpan(b) + 1))
    ELSE <<Head(t)>> \o StripNumbers(Tail(t))

RECURSIVE StripWords(_, _, _)
\* re.sub('p|q', '', t) for two literal alternatives
StripWords(t, p, q) ==
    IF t = <<>> THEN <<>>
    ELSE IF StartsWith(t, p) THEN StripWords(From(t, Len(p) + 1), p, q)
    ELSE IF StartsWith(t, q) THEN StripWords(From(t, Len(q) + 1), p, q)
    ELSE <<Head(t)>> \o StripWords(Tail(t), p, q)

\* re.sub of a character class
StripChars(t, S) == SelectSeq(t, LAMBDA c : c \notin S)

T_price == <<"p", "r", "i", "c", "e">>
T_time == <<"t", "i", "m", "e">>
T_and == <<"a", "n", "d">>
T_or == <<"o", "r">>
T_AND == <<"A", "N", "D">>
T_OR == <<"O", "R">>

_is_safe_expression(t) ==
    LET numbers == StripNumbers(t)
        variables == StripWords(numbers, T_price, T_time)
        comparison == StripChars(variables, {">", "<", "=", "!"})
        whitespace == StripChars(comparison, {" "})
        logical == StripWords(whitespace, T_and, T_or)
        cleaned == StripChars(logical, {"(", ")", ":"})
    IN cleaned = <<>>

RECURSIVE Tokens(_)
\* the tokens of a text, separated by blanks
Tokens(t) ==
    IF t = <<>> THEN <<>>
    ELSE IF Head(t) = " " THEN Tokens(Tail(t))
    ELSE LET n == CHOOSE k \in 1..Len(t) :
                     /\ \A i \in 1..k : t[i] # " "
                     /\ k = Len(t) \/ t[k + 1] = " "
         IN <<SubSeq(t, 1, n)>> \o Tokens(From(t, n + 1))

\* a decimal integer literal: no leading zero unless it is all zeros
IsNumber(w) ==
    /\ w # <<>> /\ \A i \in 1..Len(w) : IsDigit(w[i])
    /\ Len(w) > 1 /\ w[1] = "0" => \A i \in 1..Len(w) : w[i] = "0"

IsName(w) ==
    /\ w # <<>> /\ w[1] \in Letters
    /\ \A i \in 1..Len(w) : w[i] \in Letters \/ IsDigit(w[i])
    /\ w \notin {T_and, T_or}

CmpOps == {<<">">>, <<"<">>, <<">", "=">>, <<"<", "=">>, <<"=", "=">>, <<"!", "=">>}

\* a Python value (True and False are 1 and 0), or an exception raised
Val(n) == [raised |-> FALSE, v |-> n]
Raise == [raised |-> TRUE, v |-> 0]

\* a name or a number evaluated; NameError for a name that is not bound
Atom(w, variables) ==
    IF IsNumber(w) THEN Val(int(w))
    ELSE IF w = T_price THEN Val(variables.price)
    ELSE IF w = T_time THEN Val(variables.time)
    ELSE Raise

Compare(op, a, b) ==
    CASE op = <<">">> -> a > b
      [] op = <<"<">> -> a < b
      [] op = <<">", "=">> -> a >= b
      [] op = <<"<", "=">> -> a <= b
      [] op = <<"=", "=">> -> a = b
      [] OTHER -> a # b

RECURSIVE Chain(_, _, _)
\* a chain of comparisons from the operand left on: rest is <<op, operand, ...>>;
\* the operands behind a comparison that is false are not evaluated
Chain(left, rest, variables) ==
    IF left.raised THEN Raise
    ELSE LET right == Atom(rest[2], variables)
         IN IF right.raised THEN Raise
            ELSE IF ~Compare(rest[1], left.v, right.v) THEN Val(0)
            ELSE IF Len(rest) = 2 THEN Val(1)
            ELSE Chain(right, From(rest, 3), variables)

Comparison(ws, variables) ==
    IF Len(ws) = 1 THEN Atom(ws[1], variables)
    ELSE Chain(Atom(ws[1], variables), Tail(ws), variables)

RECURSIVE SplitOn(_, _)
\* the token sequence ws cut at every token kw
SplitOn(ws, kw) ==
    IF \E i \in 1..Len(ws) : ws[i] = kw
    THEN LET i == CHOOSE j \in 1..Len(ws) : ws[j] = kw /\ \A k \in 1..(j-1) : ws[k] # kw
         IN <<SubSeq(ws, 1, i - 1)>> \o SplitOn(From(ws, i + 1), kw)
    ELSE <<ws>>

RECURSIVE AndTest(_, _)
\* x and y and ...: the first operand that is false, or the last one
AndTest(parts, variables) ==
    LET x == Comparison(Head(parts), variables)
    IN IF Len(parts) = 1 \/ x.raised \/ x.v = 0 THEN x
       ELSE AndTest(Tail(parts), variables)

RECURSIVE OrTest(_, _)
\* x or y or ...: the first operand that is true, or the last one
OrTest(parts, variables) ==
    LET x == AndTest(SplitOn(Head(parts), T_and), variables)
    IN IF Len(parts) = 1 \/ x.raised \/ x.v # 0 THEN x
       ELSE OrTest(Tail(parts), variables)

\* the token sequence is an operand, or operands with a comparison between each two
IsComparison(ws) ==
    /\ Len(ws) % 2 = 1
    /\ \A i \in 1..Len(ws) :
          IF i % 2 = 1 THEN IsNumber(ws[i]) \/ IsName(ws[i]) ELSE ws[i] \in CmpOps

\* Python's grammar for the texts explored: or_test over and_test over comparison
IsExpression(ws) ==
    LET ors == SplitOn(ws, T_or)
    IN \A i \in 1..Len(ors) :
          LET ands == SplitOn(ors[i], T_and)
          IN \A j \in 1..Len(ands) : IsComparison(ands[j])

\* eval(t, {"__builtins__": {}}, variables): SyntaxError when the text does not
\* compile, else the value, or the NameError of an operand that gets evaluated
eval(t, variables) ==
    LET ws == Tokens(t)
    IN IF ~IsExpression(ws) THEN Raise ELSE OrTest(SplitOn(ws, T_or), variables)

_safe_eval(expression, variables) ==
    LET e1 == replace(expression, <<" ">> \o T_AND \o <<" ">>, <<" ">> \o T_and \o <<" ">>)
        e2 == replace(e1, <<" ">> \o T_OR \o <<" ">>, <<" ">> \o T_or \o <<" ">>)
        e3 == _normalize_time(e2)
    IN IF ~_is_safe_expression(e3) THEN Raise ELSE eval(e3, variables)

\* evaluate: every exception of _safe_eval is caught and gives False
evaluate(condition, current_price, now) ==
    LET result == _safe_eval(condition, [price |-> current_price, time |-> now])
    IN IF result.raised THEN FALSE ELSE result.v # 0

-----------------------------------------------------------------------------
(* strategy_engine.py: operations on the strategy records.  E is the pair   *)
(* of the records and the count of SELL orders built for each strategy.     *)

_enter_position(E, s, price) == [E EXCEPT !.strat[s] = enter(@, price)]

_exit_position(E, s, price, reason) ==
    [E EXCEPT !.strat[s] = exit(@, cfg[s], price, reason),
              !.exits[s] = @ + 1]

get_current_price(prices, i) == IF i \in DOMAIN prices THEN prices[i] ELSE 0

_force_close_strategy(E, s, reason, prices) ==
    IF is_open(E.strat[s])
    THEN _exit_position(E, s, get_current_price(prices, cfg[s].instrument), reason)
    ELSE E

\* the checks of the OPEN state with the exit condition tested before the risk limits
exit_condition_first(E, s, price, time) ==
    LET st == E.strat[s]
        c == cfg[s]
        current_pnl == calculate_pnl(st, c, price)
    IN IF st.state = "CREATED"
       THEN IF Evaluate(c.entry_condition, price, time)
            THEN _enter_position(E, s, price) ELSE E
       ELSE IF st.state = "OPEN"
       THEN IF Evaluate(c.exit_condition, price, time)
            THEN _exit_position(E, s, price, "EXIT_CONDITION")
            ELSE IF current_pnl <= -c.max_loss
            THEN _exit_position(E, s, price, "STOP_LOSS")
            ELSE IF current_pnl >= c.max_profit
            THEN _exit_position(E, s, price, "TARGET_HIT")
            ELSE E
       ELSE E

\* the entry condition also tested for a strategy that has exited
reenters_after_exit(E, s, price, time) ==
    LET st == E.strat[s]
        c == cfg[s]
        current_pnl == calculate_pnl(st, c, price)
    IN IF st.state = "CREATED" \/ is_closed(st)
       THEN IF Evaluate(c.entry_condition, price, time)
            THEN _enter_position(E, s, price) ELSE E
       ELSE IF st.state = "OPEN"
       THEN IF current_pnl <= -c.max_loss
            THEN _exit_position(E, s, price, "STOP_LOSS")
            ELSE IF current_pnl >= c.max_profit
            THEN _exit_position(E, s, price, "TARGET_HIT")
            ELSE IF Evaluate(c.exit_condition, price, time)
            THEN _exit_position(E, s, price, "EXIT_CONDITION")
            ELSE E
       ELSE E

_evaluate_strategy(E, s, price, time) ==
    LET st == E.strat[s]
        c == cfg[s]
        current_pnl == calculate_pnl(st, c, price)
    IN IF st.state = "CREATED"
       THEN IF Evaluate(c.entry_condition, price, time)
            THEN _enter_position(E, s, price) ELSE E
       ELSE IF st.state = "OPEN"
       THEN IF current_pnl <= -c.max_loss
            THEN _exit_position(E, s, price, "STOP_LOSS")
            ELSE IF current_pnl >= c.max_profit
            THEN _exit_position(E, s, price, "TARGET_HIT")
            ELSE IF Evaluate(c.exit_condition, price, time)
            THEN _exit_position(E, s, price, "EXIT_CONDITION")
            ELSE E
       ELSE E

RECURSIVE close_all_regardless(_, _, _)
\* force_close_all exiting every strategy of the list, OPEN or not
close_all_regardless(E, todo, prices) ==
    IF todo = {} THEN E
    ELSE LET s == CHOOSE x \in todo : TRUE
         IN close_all_regardless(
                _exit_position(E, s, get_current_price(prices, cfg[s].instrument), "MARKET_CLOSE"),
                todo \ {s}, prices)

RECURSIVE force_close_all(_, _, _)
force_close_all(E, todo, prices) ==
    IF todo = {} THEN E
    ELSE LET s == CHOOSE x \in todo : TRUE
             E1 == IF is_open(E.strat[s])
                   THEN _force_close_strategy(E, s, "MARKET_CLOSE", prices)
                   ELSE E
         IN force_close_all(E1, todo \ {s}, prices)

-----------------------------------------------------------------------------
(* asyncio.Queue *)

full(q) == Len(q) >= QueueCap

\* Orders in which a set can be iterated: the hash order of the queue objects
Orders == {o \in [1..Cardinality(Strategies) -> Strategies] :
              \A i, j \in 1..Cardinality(Strategies) : o[i] = o[j] => i = j}

RECURSIVE InOrder(_, _)
\* the members of set S as a sequence, in the order o
InOrder(o, S) ==
    IF o = <<>> THEN <<>>
    ELSE IF Head(o) \in S THEN <<Head(o)>> \o InOrder(Tail(o), S)
         ELSE InOrder(Tail(o), S)

RemoveFirst(sq, x) ==
    IF \E i \in 1..Len(sq) : sq[i] = x
    THEN LET i == CHOOSE k \in 1..Len(sq) : sq[k] = x /\ \A j \in 1..(k-1) : sq[j] # x
         IN SubSeq(sq, 1, i-1) \o SubSeq(sq, i+1, Len(sq))
    ELSE sq

-----------------------------------------------------------------------------
(* market_sim.py: the broadcaster.  B is the part of the state a broadcast  *)
(* round works on; np is the price the random walk draws for each           *)
(* instrument and o the order in which a copied subscriber set is iterated. *)

BState == [pc |-> bpc, sub |-> bSub, instrs |-> bInstrs, queues |-> bQueues, tick |-> bTick,
           prices |-> current_prices, gen |-> gen, queue |-> queue, putters |-> putters]

RECURSIVE broadcast_to_all(_, _, _, _, _)
\* the round with each tick sent to the subscribers of every instrument
broadcast_to_all(B, np, o, subs, n) ==
    IF B.queues # <<>>
    THEN LET q == Head(B.queues)
         IN IF ~full(B.queue[q])
            THEN [B EXCEPT !.queue[q] = Append(@, B.tick), !.queues = Tail(@), !.pc = "round"]
            ELSE [B EXCEPT !.putters[q] = Append(@, "bcast"), !.pc = "blocked", !.sub = "blocked"]
    ELSE IF B.instrs # <<>> /\ Head(B.instrs) \notin DOMAIN B.prices
    THEN [B EXCEPT !.pc = "error", !.tick = NoTick, !.instrs = <<>>]
    ELSE IF B.instrs # <<>>
    THEN LET i == Head(B.instrs)
         IN broadcast_to_all(
                [B EXCEPT !.prices[i] = np[i],
                          !.tick = MarketTick(i, np[i], n),
                          !.gen[i] = n,
                          !.queues = InOrder(o, UNION {subs[j] : j \in Symbols}),
                          !.instrs = Tail(@)],
                np, o, subs, n)
    ELSE [B EXCEPT !.pc = "sleep", !.tick = NoTick]

RECURSIVE iterates_live_set(_, _, _, _, _)
\* _broadcast_tick iterating self.subscribers[instrument] itself, not a copy: the
\* iterator raises RuntimeError when a queue has left the set since the last enqueue
iterates_live_set(B, np, o, subs, n) ==
    IF B.queues # <<>> /\ Head(B.queues) \notin subs[B.tick.instrument]
    THEN [B EXCEPT !.pc = "error", !.tick = NoTick, !.instrs = <<>>, !.queues = <<>>]
    ELSE IF B.queues # <<>>
    THEN LET q == Head(B.queues)
         IN IF ~full(B.queue[q])
            THEN [B EXCEPT !.queue[q] = Append(@, B.tick), !.queues = Tail(@), !.pc = "round"]
            ELSE [B EXCEPT !.putters[q] = Append(@, "bcast"), !.pc = "blocked", !.sub = "blocked"]
    ELSE IF B.instrs # <<>> /\ Head(B.instrs) \notin DOMAIN B.prices
    THEN [B EXCEPT !.pc = "error", !.tick = NoTick, !.instrs = <<>>]
    ELSE IF B.instrs # <<>>
    THEN LET i == Head(B.instrs)
         IN iterates_live_set(
                [B EXCEPT !.prices[i] = np[i],
                          !.tick = MarketTick(i, np[i], n),
                          !.gen[i] = n,
                          !.queues = InOrder(o, subs[i]),
                          !.instrs = Tail(@)],
                np, o, subs, n)
    ELSE [B EXCEPT !.pc = "sleep", !.tick = NoTick]

RECURSIVE _generate_and_broadcast_ticks(_, _, _, _, _)
\* run round n on from the next enqueue attempt, up to the next await that yields, or
\* to the KeyError of self.current_prices[instrument] ("error")
_generate_and_broadcast_ticks(B, np, o, subs, n) ==
    IF B.queues # <<>>
    THEN LET q == Head(B.queues)
         IN IF ~full(B.queue[q])
            THEN [B EXCEPT !.queue[q] = Append(@, B.tick), !.queues = Tail(@), !.pc = "round"]
            ELSE [B EXCEPT !.putters[q] = Append(@, "bcast"), !.pc = "blocked", !.sub = "blocked"]
    ELSE IF B.instrs # <<>> /\ Head(B.instrs) \notin DOMAIN B.prices
    THEN [B EXCEPT !.pc = "error", !.tick = NoTick, !.instrs = <<>>]
    ELSE IF B.instrs # <<>>
    THEN LET i == Head(B.instrs)
         IN _generate_and_broadcast_ticks(
                [B EXCEPT !.prices[i] = np[i],
                          !.tick = MarketTick(i, np[i], n),
                          !.gen[i] = n,
                          !.queues = InOrder(o, subs[i]),
                          !.instrs = Tail(@)],
                np, o, subs, n)
    ELSE [B EXCEPT !.pc = "sleep", !.tick = NoTick]

\* the KeyError leaves the loop of start(): except Exception, finally is_running = False
SetB(B) ==
    /\ bpc' = IF B.pc = "error" THEN "done" ELSE B.pc
    /\ is_running' = IF B.pc = "error" THEN FALSE
                     ELSE IF bpc = "created" THEN TRUE ELSE is_running
    /\ bSub' = B.sub
    /\ bInstrs' = B.instrs
    /\ bQueues' = B.queues
    /\ bTick' = B.tick
    /\ current_prices' = B.prices
    /\ gen' = B.gen
    /\ queue' = B.queue
    /\ putters' = B.putters

\* the prices the random walk can draw for the instruments still to come in a round
Draws(instrs) ==
    {np \in [Instruments -> Prices] :
        \A i \in Instruments :
            IF \E k \in 1..Len(instrs) : instrs[k] = i
            THEN np[i] \in Walk(current_prices[i])
            ELSE np[i] = current_prices[i]}

\* asyncio.Queue._wakeup_next(self._putters): the first blocked producer is resumed
WakeBcast(q) == putters[q] # <<>> /\ Head(putters[q]) = "bcast"
WakeStop(q) == putters[q] # <<>> /\ Head(putters[q]) = "stop"

stratVars == <<cfg, strat, exits, stats, ev>>
unitVars == <<rpc, active, upc, uCancel, consumed>>
coordVars == <<spc, shutdown_event, sIter, slog>>

\* MarketDataSimulator.start, up to the first await that yields
BStart ==
    /\ bpc = "created" /\ ~bCancel
    /\ rounds' = rounds + 1
    /\ \E np \in Draws(subKeys), o \in Orders :
          SetB(_generate_and_broadcast_ticks([BState EXCEPT !.instrs = subKeys, !.queues = <<>>],
                                             np, o, subscribers, rounds + 1))
    /\ UNCHANGED <<subKeys, subscribers, bCancel>>
    /\ UNCHANGED <<stratVars, unitVars, coordVars>>

\* asyncio.sleep(TICK_INTERVAL) returns: the loop tests is_running and starts the next round
BWake ==
    /\ bpc = "sleep" /\ ~bCancel
    /\ IF is_running
       THEN /\ rounds < MaxRounds
            /\ rounds' = rounds + 1
            /\ \E np \in Draws(subKeys), o \in Orders :
                  SetB(_generate_and_broadcast_ticks([BState EXCEPT !.instrs = subKeys, !.queues = <<>>],
                                                     np, o, subscribers, rounds + 1))
       ELSE /\ bpc' = "done"
            /\ is_running' = FALSE
            /\ UNCHANGED <<bSub, bInstrs, bQueues, bTick, current_prices, queue, putters, rounds, gen>>
    /\ UNCHANGED <<subKeys, subscribers, bCancel>>
    /\ UNCHANGED <<stratVars, unitVars, coordVars>>

\* the round goes on after an enqueue attempt has ended
BStep ==
    /\ bpc = "round" /\ ~bCancel
    /\ \E np \in Draws(bInstrs), o \in Orders :
          SetB(_generate_and_broadcast_ticks(BState, np, o, subscribers, rounds))
    /\ UNCHANGED <<subKeys, subscribers, bCancel, rounds>>
    /\ UNCHANGED <<stratVars, unitVars, coordVars>>

\* Queue.put resumes after a consumer made room: it enqueues, or waits again if the
\* room has been taken
BResume ==
    /\ bpc = "blocked" /\ bSub = "woken" /\ ~bCancel
    /\ LET q == Head(bQueues)
       IN IF ~full(queue[q])
          THEN /\ queue' = [queue EXCEPT ![q] = Append(@, bTick)]
               /\ bQueues' = Tail(bQueues)
               /\ bpc' = "round"
               /\ bSub' = "blocked"
               /\ UNCHANGED putters
          ELSE /\ putters' = [putters EXCEPT ![q] = Append(@, "bcast")]
               /\ bSub' = "blocked"
               /\ UNCHANGED <<queue, bQueues, bpc>>
    /\ UNCHANGED <<is_running, subKeys, subscribers, current_prices, bCancel, bInstrs, bTick, rounds, gen>>
    /\ UNCHANGED <<stratVars, unitVars, coordVars>>

\* what a producer leaves behind when its blocked put on q is cancelled (Queue.put's
\* except clause): it leaves the waiters, and passes a wake-up it had got on to the next
AbandonPut(q, wasWoken) ==
    LET rest == RemoveFirst(putters[q], "bcast")
        pass == wasWoken /\ ~full(queue[q]) /\ rest # <<>>
    IN /\ putters' = [putters EXCEPT ![q] = IF pass THEN Tail(rest) ELSE rest]
       /\ sIter' = IF pass THEN [sIter EXCEPT !.woken = TRUE] ELSE sIter

\* "await queue.put(tick)" with no bound on the wait: the timeout never fires
put_without_timeout == FALSE /\ UNCHANGED vars

\* the timeout handled like the other exceptions of _broadcast_tick: the queue is
\* taken for dead and discarded from the subscribers
timeout_discards_queue ==
    /\ bpc = "blocked" /\ ~bCancel
    /\ AbandonPut(Head(bQueues), bSub = "woken")
    /\ subscribers' = [subscribers EXCEPT ![bTick.instrument] = @ \ {Head(bQueues)}]
    /\ bQueues' = Tail(bQueues)
    /\ bpc' = "round"
    /\ bSub' = "blocked"
    /\ UNCHANGED <<is_running, subKeys, current_prices, queue, bCancel,
                   bInstrs, bTick, rounds, gen>>
    /\ UNCHANGED <<cfg, stats, ev, strat, exits, rpc, active, upc, uCancel, consumed, spc,
                   shutdown_event, slog>>

\* asyncio.wait_for(queue.put(tick), timeout=0.1) times out: the tick is skipped for q
BTimeout ==
    /\ bpc = "blocked" /\ ~bCancel
    /\ AbandonPut(Head(bQueues), bSub = "woken")
    /\ bQueues' = Tail(bQueues)
    /\ bpc' = "round"
    /\ bSub' = "blocked"
    /\ UNCHANGED <<is_running, subKeys, subscribers, current_prices, queue, bCancel,
                   bInstrs, bTick, rounds, gen>>
    /\ UNCHANGED <<stratVars, unitVars, spc, shutdown_event, slog>>

\* the CancelledError reaches start(): except CancelledError, finally is_running = False
BCancelled ==
    /\ bCancel
    /\ bpc \in {"sleep", "round", "blocked"}
    /\ IF bpc = "blocked"
       THEN AbandonPut(Head(bQueues), bSub = "woken")
       ELSE UNCHANGED <<putters, sIter>>
    /\ bpc' = "done"
    /\ bCancel' = FALSE
    /\ is_running' = FALSE
    /\ bSub' = "blocked" /\ bInstrs' = <<>> /\ bQueues' = <<>> /\ bTick' = NoTick
    /\ UNCHANGED <<subKeys, subscribers, current_prices, queue, rounds, gen>>
    /\ UNCHANGED <<stratVars, unitVars, spc, shutdown_event, slog>>

bcastVars == <<bpc, bSub, bCancel, bInstrs, bQueues, bTick, rounds, gen>>

-----------------------------------------------------------------------------
(* strategy_engine.py: the strategy units *)

EState == [strat |-> strat, exits |-> exits]

SetE(E) == strat' = E.strat /\ exits' = E.exits

\* MarketDataSimulator.unsubscribe
unsubscribe(subs, i, q) == IF i \in DOMAIN subs THEN [subs EXCEPT ![i] = @ \ {q}] ELSE subs

\* "if strategy.is_open(): await self._force_close_strategy(...)" at the end of the
\* loop and in the cancellation handler of _run_strategy
ForceCloseIfOpen(E, s, prices) ==
    IF is_open(E.strat[s]) THEN _force_close_strategy(E, s, "MARKET_CLOSE", prices) ELSE E

\* the finally clause with the unsubscribe left out
cleanup_keeps_subscription(s) ==
    /\ subscribers' = subscribers
    /\ active' = active \ {s}
    /\ upc' = [upc EXCEPT ![s] = "done"]
    /\ consumed' = [consumed EXCEPT ![s] = [n |-> 0, from |-> 0, at |-> 0]]

\* the finally clause discarding every queue registered for the instrument
cleanup_drops_instrument(s) ==
    /\ subscribers' = [subscribers EXCEPT ![cfg[s].instrument] = {}]
    /\ active' = active \ {s}
    /\ upc' = [upc EXCEPT ![s] = "done"]
    /\ consumed' = [consumed EXCEPT ![s] = [n |-> 0, from |-> 0, at |-> 0]]

\* the finally clause of _run_strategy
Cleanup(s) ==
    /\ subscribers' = unsubscribe(subscribers, cfg[s].instrument, s)
    /\ active' = active \ {s}
    /\ upc' = [upc EXCEPT ![s] = "done"]
    /\ consumed' = [consumed EXCEPT ![s] = [n |-> 0, from |-> 0, at |-> 0]]

\* StrategyEngine.run, up to the gather: one task per strategy
RunStart ==
    /\ rpc = "created"
    /\ rpc' = "gather"
    /\ upc' = [s \in Strategies |-> "new"]
    /\ active' = Strategies
    /\ UNCHANGED <<uCancel, consumed, stratVars, coordVars, bcastVars>>
    /\ UNCHANGED <<is_running, subKeys, subscribers, current_prices, queue, putters>>

\* the unit's task is over: _run_strategy has returned or raised ("done"), or the
\* task was cancelled before its first step and never ran ("cancelled")
Ended(s) == upc[s] \in {"done", "cancelled"}

\* the gather of run() returns when every unit has ended
RunDone ==
    /\ rpc = "gather"
    /\ \A s \in Strategies : Ended(s)
    /\ rpc' = "done"
    /\ UNCHANGED <<active, upc, uCancel, consumed, stratVars, coordVars, bcastVars>>
    /\ UNCHANGED <<is_running, subKeys, subscribers, current_prices, queue, putters>>

\* _run_strategy up to its first wait: subscribe
UStart(s) ==
    /\ upc[s] = "new" /\ ~uCancel[s]
    /\ LET i == cfg[s].instrument
       IN /\ subscribers' = [subscribers EXCEPT ![i] = @ \cup {s}]
          /\ subKeys' = IF \E k \in 1..Len(subKeys) : subKeys[k] = i
                         THEN subKeys ELSE Append(subKeys, i)
          /\ consumed' = [consumed EXCEPT ![s] = [n |-> 0, from |-> gen[i], at |-> rounds]]
    /\ upc' = [upc EXCEPT ![s] = "wait"]
    /\ UNCHANGED <<rpc, active, uCancel, stratVars, coordVars, bcastVars>>
    /\ UNCHANGED <<is_running, current_prices, queue, putters>>

\* the units in which _evaluate_strategy can raise; it runs no statement for a
\* strategy that is neither CREATED nor OPEN
Faulty == {"s2"}
Faults(s) == IF s \in Faulty /\ strat[s].state \in {"CREATED", "OPEN"} THEN BOOLEAN ELSE {FALSE}

\* one turn of the loop of _run_strategy: the next item of the queue is taken and
\* handled; fault: _evaluate_strategy raises
UStep(s) ==
    /\ upc[s] = "wait" /\ ~uCancel[s]
    /\ queue[s] # <<>>
    /\ LET tick == Head(queue[s])
       IN /\ queue' = [queue EXCEPT ![s] = Tail(@)]
          /\ putters' = [putters EXCEPT ![s] = IF @ = <<>> THEN @ ELSE Tail(@)]
          /\ bSub' = IF WakeBcast(s) THEN "woken" ELSE bSub
          /\ sIter' = IF WakeStop(s) THEN [sIter EXCEPT !.woken = TRUE] ELSE sIter
          /\ IF tick = Sentinel
             THEN /\ SetE(ForceCloseIfOpen(EState, s, current_prices))
                  /\ Cleanup(s)
             ELSE /\ \E fault \in Faults(s), time \in Times :
                        IF fault
                        THEN /\ SetE([EState EXCEPT !.strat[s] = mark_failed(@)])
                             /\ Cleanup(s)
                        ELSE LET E1 == _evaluate_strategy(EState, s, tick.price, time)
                             IN /\ SetE(E1)
                                /\ IF is_closed(E1.strat[s])
                                   THEN Cleanup(s)
                                   ELSE /\ UNCHANGED <<subscribers, active, upc>>
                                        /\ consumed' = [consumed EXCEPT ![s].n = tick.seq]
    /\ UNCHANGED <<cfg, stats, ev, rpc, uCancel, is_running, subKeys, current_prices>>
    /\ UNCHANGED <<bpc, bCancel, bInstrs, bQueues, bTick, rounds, gen>>
    /\ UNCHANGED <<spc, shutdown_event, slog>>

\* the CancelledError reaches the unit at its wait: except CancelledError, finally
UCancelled(s) ==
    /\ uCancel[s] /\ upc[s] = "wait"
    /\ SetE(ForceCloseIfOpen(EState, s, current_prices))
    /\ Cleanup(s)
    /\ uCancel' = [uCancel EXCEPT ![s] = FALSE]
    /\ UNCHANGED <<cfg, stats, ev, rpc, coordVars, bcastVars>>
    /\ UNCHANGED <<is_running, subKeys, current_prices, queue, putters>>

-----------------------------------------------------------------------------
(* main.py: TradingEngine.start and _shutdown, and MarketDataSimulator.stop *)

IdleIter == [cur |-> "none", instrs |-> <<>>, keys |-> 0, plan |-> {}, size |-> 0,
             visited |-> {}, target |-> "none", woken |-> FALSE]

SState == [it |-> sIter, queue |-> queue, putters |-> putters, res |-> "run"]

RECURSIVE stop(_, _, _)
\* the two loops of stop(), run on up to a put that blocks, the end, or the
\* RuntimeError of an iterator whose dict or set changed size.  o is the order in
\* which a set is iterated; take: the queues added to the set meanwhile that the
\* iterator still comes across
stop(S, o, take) ==
    IF S.it.cur = "none"
    THEN IF Len(subKeys) # S.it.keys
         THEN [S EXCEPT !.res = "error"]
         ELSE IF S.it.instrs = <<>>
         THEN [S EXCEPT !.res = "done"]
         ELSE LET i == Head(S.it.instrs)
              IN stop([S EXCEPT !.it.cur = i,
                                !.it.instrs = Tail(@),
                                !.it.plan = subscribers[i],
                                !.it.size = Cardinality(subscribers[i]),
                                !.it.visited = {}],
                      o, take)
    ELSE IF Cardinality(subscribers[S.it.cur]) # S.it.size
         THEN [S EXCEPT !.res = "error"]
         ELSE LET now == subscribers[S.it.cur]
                  cand == ((S.it.plan \cap now) \cup ((now \ S.it.plan) \cap take)) \ S.it.visited
              IN IF cand = {}
                 THEN stop([S EXCEPT !.it.cur = "none"], o, take)
                 ELSE LET q == Head(InOrder(o, cand))
                      IN IF ~full(S.queue[q])
                         THEN stop([S EXCEPT !.queue[q] = Append(@, Sentinel),
                                             !.it.visited = @ \cup {q}],
                                   o, take)
                         ELSE [S EXCEPT !.putters[q] = Append(@, "stop"),
                                        !.it.target = q,
                                        !.it.woken = FALSE,
                                        !.res = "blocked"]

\* task.cancel() for the four tasks of start(): a task that has not started never
\* runs; cancelling the run() task cancels the units it gathers.  A task whose
\* wait_for has its result ready keeps that result and is not cancelled (sw, bsw)
CancelTasks(sw, bsw) ==
    /\ bpc' = IF bpc = "created" THEN "done" ELSE bpc
    /\ bCancel' = (bpc \in {"sleep", "blocked"} \/ (bpc = "round" /\ ~bsw))
    /\ rpc' = IF rpc = "created" THEN "done" ELSE rpc
    /\ upc' = [s \in Strategies |-> IF upc[s] = "new" THEN "cancelled" ELSE upc[s]]
    /\ uCancel' = [s \in Strategies |-> upc[s] = "wait" /\ s \notin sw]

\* _shutdown after stop() has returned: force_close_all, cancel, then the gather
AfterStop(sw, bsw) ==
    /\ SetE(force_close_all(EState, active, current_prices))
    /\ CancelTasks(sw, bsw)
    /\ spc' = "gather"
    /\ slog' = slog \o <<"stop", "force_close_all", "cancel">>

\* the exception leaves _shutdown, start and main: sys.exit(1), and asyncio.run
\* cancels the tasks that are left and waits for them
Abort(sw, bsw) ==
    /\ UNCHANGED <<strat, exits>>
    /\ CancelTasks(sw, bsw)
    /\ spc' = "teardown"
    /\ slog' = slog \o <<"stop_error", "cancel">>

Continue(S, sw, bsw) ==
    /\ queue' = S.queue
    /\ putters' = S.putters
    /\ sIter' = IF S.res = "blocked" THEN S.it ELSE IdleIter
    /\ CASE S.res = "done"  -> AfterStop(sw, bsw)
         [] S.res = "error" -> Abort(sw, bsw)
         [] OTHER -> /\ spc' = "stop"
                     /\ UNCHANGED <<strat, exits, bpc, bCancel, rpc, upc, uCancel, slog>>

\* the tasks whose wait_for can have its result ready when the tasks are cancelled:
\* the units with an item in their queue, and the broadcaster after an enqueue
Ready(S) == IF S.res = "blocked" THEN {}
            ELSE {s \in Strategies : upc[s] = "wait" /\ S.queue[s] # <<>>}
BReady(S) == IF S.res # "blocked" /\ bpc = "round" THEN BOOLEAN ELSE {FALSE}

\* SIGTERM/SIGINT or _monitor_market_close sets shutdown_event; start() wakes from
\* shutdown_event.wait() and runs _shutdown up to its first await that yields
Shutdown ==
    /\ spc = "wait" /\ ~shutdown_event
    /\ shutdown_event' = TRUE
    /\ is_running' = FALSE
    /\ \E o \in Orders :
          LET S == stop([SState EXCEPT !.it = [IdleIter EXCEPT !.instrs = subKeys,
                                                              !.keys = Len(subKeys)]],
                        o, {})
          IN \E sw \in SUBSET Ready(S), bsw \in BReady(S) : Continue(S, sw, bsw)
    /\ UNCHANGED <<cfg, stats, ev, subKeys, subscribers, current_prices, active, consumed>>
    /\ UNCHANGED <<bSub, bInstrs, bQueues, bTick, rounds, gen>>

\* the blocked put(None) of stop() resumes after a consumer made room
StopResume ==
    /\ spc = "stop" /\ sIter.woken
    /\ LET q == sIter.target
       IN IF full(queue[q])
          THEN /\ putters' = [putters EXCEPT ![q] = Append(@, "stop")]
               /\ sIter' = [sIter EXCEPT !.woken = FALSE]
               /\ UNCHANGED <<queue, spc, strat, exits, bpc, bCancel, rpc, upc, uCancel, slog>>
          ELSE \E o \in Orders, take \in SUBSET (subscribers[sIter.cur] \ sIter.plan) :
                 LET S == stop([SState EXCEPT !.queue[q] = Append(@, Sentinel),
                                              !.it.visited = @ \cup {q},
                                              !.it.target = "none",
                                              !.it.woken = FALSE],
                               o, take)
                 IN \E sw \in SUBSET Ready(S), bsw \in BReady(S) : Continue(S, sw, bsw)
    /\ UNCHANGED <<cfg, stats, ev, is_running, subKeys, subscribers, current_prices, active, consumed,
                   shutdown_event>>
    /\ UNCHANGED <<bSub, bInstrs, bQueues, bTick, rounds, gen>>

\* StrategyEngine.strategies: empty until run() has started
strategies == IF \A s \in Strategies : upc[s] = "none" THEN {} ELSE Strategies

RECURSIVE Sum(_, _)
\* sum(f[x] for x in S)
Sum(f, S) == IF S = {} THEN 0
             ELSE LET x == CHOOSE y \in S : TRUE IN f[x] + Sum(f, S \ {x})

NoStats == [total |-> 0, completed |-> 0, force_closed |-> 0, failed |-> 0,
            never_entered |-> 0, total_pnl |-> 0, winners |-> 0, losers |-> 0]

\* the statistics with every exited strategy counted as completed
completed_counts_exited(all, st) ==
    [total |-> Cardinality(all),
     completed |-> Cardinality({s \in all : is_closed(st[s])}),
     force_closed |-> Cardinality({s \in all : st[s].state = "FORCE_CLOSED"}),
     failed |-> Cardinality({s \in all : st[s].state = "FAILED"}),
     never_entered |-> Cardinality({s \in all : st[s].state = "CREATED"}),
     total_pnl |-> Sum([s \in all |-> st[s].pnl], all),
     winners |-> Cardinality({s \in all : st[s].pnl # 0 /\ st[s].pnl > 0}),
     losers |-> Cardinality({s \in all : st[s].pnl # 0 /\ st[s].pnl < 0})]

\* StrategyEngine.get_statistics over the list all (self.strategies)
get_statistics(all, st) ==
    [total |-> Cardinality(all),
     completed |-> Cardinality({s \in all : st[s].state = "CLOSED"}),
     force_closed |-> Cardinality({s \in all : st[s].state = "FORCE_CLOSED"}),
     failed |-> Cardinality({s \in all : st[s].state = "FAILED"}),
     never_entered |-> Cardinality({s \in all : st[s].state = "CREATED"}),
     total_pnl |-> Sum([s \in all |-> st[s].pnl], all),
     winners |-> Cardinality({s \in all : st[s].pnl # 0 /\ st[s].pnl > 0}),
     losers |-> Cardinality({s \in all : st[s].pnl # 0 /\ st[s].pnl < 0})]

\* the gather of _shutdown returns when the tasks have ended: _print_summary
GatherDone ==
    /\ spc = "gather"
    /\ bpc = "done" /\ rpc = "done"
    /\ spc' = "done"
    /\ slog' = slog \o <<"gather", "stats">>
    /\ stats' = get_statistics(strategies, strat)
    /\ UNCHANGED <<shutdown_event, sIter, cfg, strat, exits, ev, unitVars, bcastVars>>
    /\ UNCHANGED <<is_running, subKeys, subscribers, current_prices, queue, putters>>

\* asyncio.run returns when the cancelled tasks have ended: the process exits
TeardownDone ==
    /\ spc = "teardown"
    /\ bpc = "done" /\ rpc = "done" /\ \A s \in Strategies : upc[s] = "none" \/ Ended(s)
    /\ spc' = "exited"
    /\ UNCHANGED <<shutdown_event, sIter, slog, stratVars, unitVars, bcastVars>>
    /\ UNCHANGED <<is_running, subKeys, subscribers, current_prices, queue, putters>>

-----------------------------------------------------------------------------
(* The strategies of the runs explored (strategies.json) *)

Strategy(i, en, ex, qty, ml, mp) ==
    [instrument |-> i, entry_condition |-> en, exit_condition |-> ex,
     quantity |-> qty, max_loss |-> ml, max_profit |-> mp]

Fleets ==
    {f \in [Strategies -> [instrument : Symbols,
                           entry_condition : {Cond("price", ">", 1), Cond("price", "<", 2)},
                           exit_condition : {Cond("price", "<", 2), Cond("price", ">", 5)},
                           quantity : {1, 2},
                           max_loss : {1, 5},
                           max_profit : {1, 5}]] :
        /\ f["s1"] = Strategy("NIFTY", Cond("price", ">", 1), Cond("price", "<", 2), 2, 5, 5)
        /\ f["s2"] \in {Strategy(i, Cond("price", "<", 2), Cond("price", ">", 5), 1, 1, 1) :
                            i \in Instruments}}

\* the engine as TradingEngine.start has set it up, the tasks created
Created ==
    /\ cfg \in Fleets
    /\ strat = [s \in Strategies |-> NewStrategy]
    /\ exits = [s \in Strategies |-> 0]
    /\ is_running = FALSE
    /\ subKeys = <<>>
    /\ subscribers = [i \in Symbols |-> {}]
    /\ current_prices = [i \in Instruments |-> BasePrice]
    /\ queue = [s \in Strategies |-> <<>>]
    /\ putters = [s \in Strategies |-> <<>>]
    /\ bpc = "created"
    /\ bSub = "blocked"
    /\ bCancel = FALSE
    /\ bInstrs = <<>>
    /\ bQueues = <<>>
    /\ bTick = NoTick
    /\ rounds = 0
    /\ gen = [i \in Symbols |-> 0]
    /\ rpc = "created"
    /\ active = {}
    /\ upc = [s \in Strategies |-> "none"]
    /\ uCancel = [s \in Strategies |-> FALSE]
    /\ consumed = [s \in Strategies |-> [n |-> 0, from |-> 0, at |-> 0]]
    /\ spc = "wait"
    /\ shutdown_event = FALSE
    /\ sIter = IdleIter
    /\ slog = <<>>
    /\ stats = NoStats

Init == Created /\ ev = NoCall

Next ==
    \/ BStart
    \/ BWake
    \/ BStep
    \/ BResume
    \/ BTimeout
    \/ BCancelled
    \/ RunStart
    \/ RunDone
    \/ \E s \in Strategies : UStart(s)
    \/ \E s \in Strategies : UStep(s)
    \/ \E s \in Strategies : UCancelled(s)
    \/ Shutdown
    \/ StopResume
    \/ GatherDone
    \/ TeardownDone

Spec == Init /\ [][Next]_vars

-----------------------------------------------------------------------------
(* Position closure *)

Entered(st) == st.entry_price # NoPrice

ExitRecorded(st) == st.exit_price # NoPrice /\ st.exit_reason # "None"

\* C1: when _shutdown has finished (the final statistics are out), no strategy is
\* OPEN, and every strategy that entered a position is CLOSED or FORCE_CLOSED with
\* its exit price and exit reason recorded
C1_NoPositionLeftOpen ==
    spc = "done" =>
        \A s \in Strategies :
            /\ ~is_open(strat[s])
            /\ Entered(strat[s]) => is_closed(strat[s]) /\ ExitRecorded(strat[s])

-----------------------------------------------------------------------------
(* Shutdown *)

IsPrefix(a, b) == Len(a) <= Len(b) /\ SubSeq(b, 1, Len(a)) = a

\* C3: the shutdown sequence runs in order: stop() completes, then force_close_all,
\* then the tasks are cancelled, then the gather, then the statistics; no unit has a
\* cancellation pending unless force_close_all has run; the statistics are computed
\* only when every unit that was created has ended
C3_ShutdownOrdered ==
    /\ IsPrefix(slog, <<"stop", "force_close_all", "cancel", "gather", "stats">>)
    /\ \A s \in Strategies : uCancel[s] => Len(slog) >= 2 /\ slog[2] = "force_close_all"
    /\ spc = "done" => \A s \in Strategies : upc[s] = "none" \/ Ended(s)

\* C4: once shutdown_event is set, the shutdown sequence does not come to a halt
\* before _print_summary: whenever no task has anything left to run, the final
\* statistics are out
C4_ShutdownCompletes == (shutdown_event /\ ~ENABLED Next) => spc = "done"

SentinelCount(q) == Cardinality({k \in 1..Len(q) : q[k] = Sentinel})

\* C5: stop() never raises; no queue gets the sentinel twice; and when stop() has
\* returned, every queue that is still registered holds the sentinel
C5_SentinelOnceNoFault ==
    /\ spc \notin {"teardown", "exited"}
    /\ \A q \in Strategies : SentinelCount(queue[q]) <= 1
    /\ spc \in {"gather", "done"} =>
          \A i \in Symbols : \A q \in subscribers[i] : SentinelCount(queue[q]) = 1

\* C6: no tick is enqueued into a queue behind the sentinel
C6_NoTickAfterSentinel ==
    \A q \in Strategies : \A j, k \in 1..Len(queue[q]) :
        j < k /\ queue[q][j] = Sentinel => queue[q][k] = Sentinel

-----------------------------------------------------------------------------
(* The feed while RUNNING: no shutdown trigger.  The market_sim task is always *)
(* scheduled again and its timers fire; a strategy unit may never read again.  *)

Broadcaster == BStart \/ BWake \/ BStep \/ BResume \/ BTimeout

RunNext ==
    \/ BStart
    \/ BWake
    \/ BStep
    \/ BResume
    \/ BTimeout
    \/ RunStart
    \/ RunDone
    \/ \E s \in Strategies : UStart(s)
    \/ \E s \in Strategies : UStep(s)

RunSpec == Init /\ [][RunNext]_vars /\ WF_vars(Broadcaster)

\* C7: the broadcaster is never blocked for good by a consumer that does not read:
\* an enqueue attempt that waits on a full queue ends and the round is completed
\* (asyncio.sleep is reached), and after a completed round the next round of ticks
\* is generated (up to the number of rounds explored)
C7_NeverBlockedForGood ==
    /\ \A k \in 1..MaxRounds : (bpc = "blocked" /\ rounds = k) ~> (bpc = "sleep" /\ rounds = k)
    /\ \A k \in 1..(MaxRounds - 1) : (bpc = "sleep" /\ rounds = k) ~> (rounds = k + 1)

\* a unit that has read nothing has a full queue, the last round's tick was dropped
\* for it after the wait, and the same tick was delivered to the other subscriber of
\* the instrument
C7_Witness ==
    \E q, p \in Strategies :
        /\ q # p /\ cfg[q].instrument = cfg[p].instrument
        /\ upc[q] = "wait" /\ consumed[q].n = 0 /\ full(queue[q])
        /\ \A k \in 1..Len(queue[q]) : queue[q][k].seq < rounds
        /\ bpc = "sleep" /\ gen[cfg[q].instrument] = rounds
        /\ \E k \in 1..Len(queue[p]) : queue[p][k].seq = rounds

-----------------------------------------------------------------------------
(* Backpressure *)

\* the step in which the waiting enqueue into q is given up and the round goes on
Drop(q) ==
    /\ bpc = "blocked" /\ bpc' = "round"
    /\ Head(bQueues) = q
    /\ queue'[q] = queue[q]

\* a step in which the round in progress makes its next enqueue attempt
Attempt ==
    /\ bpc = "round" /\ bQueues # <<>>
    /\ bpc' \in {"round", "blocked"}
    /\ bQueues' # bQueues \/ bpc' # bpc

\* what a drop leaves alone: the contents of every queue, the registrations, the
\* tick and the queues it still has to go to
DropEffect ==
    /\ queue' = queue
    /\ subscribers' = subscribers
    /\ bTick' = bTick
    /\ bQueues' = Tail(bQueues)

\* C8 as stated: a timed-out tick is dropped for that subscriber only (queues and
\* registrations unchanged, the tick goes on to the other queues), and a tick is
\* never dropped for a queue that has free capacity
C8_DroppedOnlyWhenFull ==
    [][\A q \in Strategies : Drop(q) => DropEffect /\ full(queue[q])]_vars

\* C8 amended: a timed-out tick is dropped for that subscriber only (queues and
\* registrations unchanged, the tick goes on to the other queues); an enqueue
\* attempt on a queue with free capacity enqueues the tick at once, and an attempt
\* on a full queue starts the bounded wait; only such a wait ends in a drop
C8_DroppedForThatQueueOnly ==
    [][/\ \A q \in Strategies : Drop(q) => DropEffect
       /\ Attempt =>
             LET q == Head(bQueues)
             IN IF full(queue[q])
                THEN bpc' = "blocked" /\ queue' = queue /\ bQueues' = bQueues
                ELSE /\ queue' = [queue EXCEPT ![q] = Append(@, bTick)]
                     /\ bpc' = "round" /\ bQueues' = Tail(bQueues)
       /\ bpc' = "blocked" /\ bpc # "blocked" => full(queue'[Head(bQueues')])]_vars

\* the tick of this round was dropped for q, whose queue is full and still
\* registered, and has been enqueued into the queue of the other subscriber
C8_Witness ==
    \E q, p \in Strategies :
        /\ q # p /\ cfg[q].instrument = bTick.instrument /\ cfg[p].instrument = bTick.instrument
        /\ bpc = "round" /\ bQueues = <<>>
        /\ q \in subscribers[bTick.instrument] /\ full(queue[q])
        /\ \A k \in 1..Len(queue[q]) : queue[q][k].seq < bTick.seq
        /\ queue[p] # <<>> /\ queue[p][Len(queue[p])] = bTick

-----------------------------------------------------------------------------
(* Delivery order *)

\* C9: what a subscriber dequeues is an order-preserving subsequence of the ticks
\* generated for its instrument after it subscribed.  seq numbers the ticks of an
\* instrument in generation order, so: every tick waiting in the queue of a running
\* unit carries the unit's instrument, was generated after the subscription, is
\* later than the last tick the unit dequeued, the ticks wait in increasing order
\* with none twice, and the tick of the latest round carries the price generated
C9_GenerationOrder ==
    \A s \in Strategies :
        upc[s] = "wait" =>
            LET i == cfg[s].instrument
                q == queue[s]
                Ticks == {k \in 1..Len(q) : q[k] # Sentinel}
            IN /\ consumed[s].n # 0 =>
                     consumed[s].from < consumed[s].n /\ consumed[s].n <= gen[i]
               /\ \A k \in Ticks :
                     /\ q[k].instrument = i
                     /\ consumed[s].from < q[k].seq /\ q[k].seq <= gen[i]
                     /\ consumed[s].n < q[k].seq
                     /\ q[k].seq = gen[i] => q[k].price = current_prices[i]
               /\ \A j, k \in Ticks : j < k => q[j].seq < q[k].seq

\* a unit has dequeued a tick and two later ticks wait in its queue, while the
\* other unit follows another instrument
C9_Witness ==
    \E s, u \in Strategies :
        /\ cfg[s].instrument # cfg[u].instrument /\ upc[u] = "wait"
        /\ upc[s] = "wait" /\ consumed[s].n > 0
        /\ Len(queue[s]) = 2 /\ queue[s][1] # Sentinel /\ queue[s][2] # Sentinel

-----------------------------------------------------------------------------
(* Evaluation of one tick by an OPEN strategy: the units are in their loop, each *)
(* has entered on the first tick and has the second tick waiting in its queue   *)

Limits == {0, 1}

EvalFleets ==
    [Strategies -> [instrument : {"NIFTY"},
                    entry_condition : {Cond("price", ">", 0)},
                    exit_condition : {Cond("price", "<", 2), Cond("price", ">", 5)},
                    quantity : {1},
                    max_loss : Limits,
                    max_profit : Limits]]

EvalInit ==
    /\ cfg \in EvalFleets
    /\ \E e \in Prices, p \in Prices :
          /\ strat = [s \in Strategies |-> enter(NewStrategy, e)]
          /\ current_prices = [i \in Instruments |-> IF i = "NIFTY" THEN p ELSE BasePrice]
          /\ queue = [s \in Strategies |-> <<MarketTick("NIFTY", p, 2)>>]
    /\ exits = [s \in Strategies |-> 0]
    /\ is_running = TRUE
    /\ subKeys = <<"NIFTY">>
    /\ subscribers = [i \in Symbols |-> IF i = "NIFTY" THEN Strategies ELSE {}]
    /\ putters = [s \in Strategies |-> <<>>]
    /\ bpc = "sleep"
    /\ bSub = "blocked"
    /\ bCancel = FALSE
    /\ bInstrs = <<>>
    /\ bQueues = <<>>
    /\ bTick = NoTick
    /\ rounds = 2
    /\ gen = [i \in Symbols |-> IF i = "NIFTY" THEN 2 ELSE 0]
    /\ rpc = "gather"
    /\ active = Strategies
    /\ upc = [s \in Strategies |-> "wait"]
    /\ uCancel = [s \in Strategies |-> FALSE]
    /\ consumed = [s \in Strategies |-> [n |-> 1, from |-> 0, at |-> 0]]
    /\ spc = "wait"
    /\ shutdown_event = FALSE
    /\ sIter = IdleIter
    /\ slog = <<>>
    /\ stats = NoStats
    /\ ev = NoCall

EvalNext == \E s \in Strategies : UStep(s)

EvalSpec == EvalInit /\ [][EvalNext]_vars

\* the unit of s takes a tick from its queue and _evaluate_strategy returns
Evaluated(s) ==
    /\ upc[s] = "wait" /\ queue[s] # <<>> /\ Head(queue[s]) # Sentinel
    /\ queue'[s] = Tail(queue[s])
    /\ strat'[s].state # "FAILED"

Exited(st, c, price, reason) ==
    [st EXCEPT !.state = "CLOSED", !.exit_price = price, !.exit_reason = reason,
               !.pnl = (price - st.entry_price) * c.quantity]

\* C10: an OPEN strategy evaluating one tick: pnl <= -max_loss gives STOP_LOSS;
\* otherwise pnl >= max_profit gives TARGET_HIT; otherwise a true exit condition
\* gives EXIT_CONDITION; otherwise the strategy is left as it was
C10_RiskPriority ==
    [][\A s \in Strategies :
          Evaluated(s) /\ is_open(strat[s]) =>
              LET st == strat[s]
                  c == cfg[s]
                  price == Head(queue[s]).price
                  pnl == (price - st.entry_price) * c.quantity
              IN strat'[s] =
                    IF pnl <= -c.max_loss THEN Exited(st, c, price, "STOP_LOSS")
                    ELSE IF pnl >= c.max_profit THEN Exited(st, c, price, "TARGET_HIT")
                    ELSE IF \E time \in Times : Evaluate(c.exit_condition, price, time)
                    THEN Exited(st, c, price, "EXIT_CONDITION")
                    ELSE st]_vars

\* a tick that met the stop-loss and the exit condition has closed one strategy
\* with STOP_LOSS, and with max_loss = max_profit = 0 a tick at the entry price
\* has closed one with STOP_LOSS
C10_Witness ==
    /\ \E s \in Strategies :
          /\ strat[s].exit_reason = "STOP_LOSS"
          /\ \E time \in Times : Evaluate(cfg[s].exit_condition, strat[s].exit_price, time)
    /\ \E s \in Strategies :
          /\ strat[s].exit_reason = "STOP_LOSS" /\ strat[s].pnl = 0
          /\ cfg[s].max_loss = 0 /\ cfg[s].max_profit = 0

-----------------------------------------------------------------------------
(* Fields and state *)

\* C11: in every reachable state, a strategy that is OPEN has its entry price set,
\* and a strategy that is CLOSED or FORCE_CLOSED has its exit price and its exit
\* reason set
C11_FieldsMatchState ==
    \A s \in Strategies :
        /\ is_open(strat[s]) => strat[s].entry_price # NoPrice
        /\ is_closed(strat[s]) => strat[s].exit_price # NoPrice /\ strat[s].exit_reason # "None"

\* one strategy is OPEN while the other has been closed by a tick
C11_Witness ==
    /\ is_open(strat["s1"]) /\ strat["s1"].entry_price \in Prices
    /\ strat["s2"].state = "CLOSED" /\ strat["s2"].exit_price \in Prices

-----------------------------------------------------------------------------
(* Cancellation of a strategy unit *)

\* task.cancel() has been called for the tasks: every unit that was waiting for its
\* next tick has had its cancellation requested
CancelIssued == \E k \in 1..Len(slog) : slog[k] = "cancel"

\* C12: a unit cancelled at its wait for the next tick runs force-close-if-open and
\* releases: from the cancellation on a CREATED strategy stays CREATED, an OPEN one
\* can only become FORCE_CLOSED with reason MARKET_CLOSE, unsubscribed in the same
\* step, and the cancelled unit terminates: the engine never comes to rest with a
\* cancelled unit still waiting
C12_CancelledUnitReleases ==
    /\ [][CancelIssued =>
            \A s \in Strategies :
                /\ strat[s].state = "CREATED" => strat'[s].state = "CREATED"
                /\ is_open(strat[s]) /\ ~is_open(strat'[s]) =>
                      /\ strat'[s].state = "FORCE_CLOSED"
                      /\ strat'[s].exit_reason = "MARKET_CLOSE"
                      /\ s \notin subscribers'[cfg[s].instrument]]_vars
    /\ [](CancelIssued /\ ~ENABLED Next => \A s \in Strategies : upc[s] # "wait")

-----------------------------------------------------------------------------
(* Cleanup of a strategy unit *)

Released(s) == s \notin subscribers[cfg[s].instrument] /\ s \notin active

\* the unit takes the None of stop() from its queue
TakesSentinel(s) ==
    /\ upc[s] = "wait" /\ queue[s] # <<>> /\ Head(queue[s]) = Sentinel
    /\ queue'[s] = Tail(queue[s])

\* C13 as stated: whenever a unit has terminated, by whatever path, its queue is not
\* in the subscriber registry and its strategy is not in the active list
C13_CleanupOnEveryExit == \A s \in Strategies : Ended(s) => Released(s)

\* C13: whenever a unit that has started has terminated (by the sentinel, by its
\* strategy reaching a terminal state, by cancellation or by a fault) its queue is
\* not in the subscriber registry and its strategy is not in the active list; a unit
\* cancelled before its first step has no queue in the registry; and a unit that
\* takes the sentinel while its strategy is OPEN force-closes it at the instrument's
\* current price in the step that unsubscribes it
C13_CleanupOfStartedUnit ==
    /\ [](\A s \in Strategies :
            /\ upc[s] = "done" => Released(s)
            /\ upc[s] = "cancelled" => s \notin subscribers[cfg[s].instrument])
    /\ [][\A s \in Strategies :
            TakesSentinel(s) =>
                /\ upc'[s] = "done" /\ s \notin subscribers'[cfg[s].instrument] /\ s \notin active'
                /\ is_open(strat[s]) =>
                      /\ strat'[s].state = "FORCE_CLOSED"
                      /\ strat'[s].exit_reason = "MARKET_CLOSE"
                      /\ strat'[s].exit_price = current_prices[cfg[s].instrument]]_vars

\* both units have ended and released: one took the sentinel with its strategy OPEN
\* and force-closed it itself, the other ended by a fault
C13_Witness ==
    /\ upc["s1"] = "done" /\ strat["s1"].state = "FORCE_CLOSED" /\ Released("s1")
    /\ ~CancelIssued /\ slog = <<>> /\ shutdown_event
    /\ upc["s2"] = "done" /\ strat["s2"].state = "FAILED" /\ Released("s2")

-----------------------------------------------------------------------------
(* Fault isolation *)

\* the step in which the unit of s catches an exception of its loop
FaultIn(s) == strat[s].state # "FAILED" /\ strat'[s].state = "FAILED"

\* C14: a fault inside one strategy's loop marks that strategy FAILED and ends only
\* its unit: only its state field changes, no field of another strategy changes, no
\* other unit ends or is cancelled, no other queue or registration changes, and the
\* broadcaster, the engine and the coordinator are where they were
C14_FaultIsolated ==
    [][\A s \in Strategies :
          FaultIn(s) =>
              /\ strat'[s] = [strat[s] EXCEPT !.state = "FAILED"]
              /\ upc[s] = "wait" /\ upc'[s] = "done"
              /\ \A t \in Strategies \ {s} :
                    /\ strat'[t] = strat[t] /\ exits'[t] = exits[t]
                    /\ upc'[t] = upc[t] /\ uCancel'[t] = uCancel[t]
                    /\ queue'[t] = queue[t] /\ consumed'[t] = consumed[t]
              /\ \A i \in Symbols : subscribers'[i] = subscribers[i] \ {s}
              /\ active' = active \ {s}
              /\ bpc' = bpc /\ bCancel' = bCancel /\ is_running' = is_running
              /\ rounds' = rounds /\ current_prices' = current_prices
              /\ rpc' = rpc /\ spc' = spc /\ shutdown_event' = shutdown_event]_vars

\* s2 has failed while the sibling on the same instrument is registered and waiting
\* with a tick to evaluate, and the broadcaster is running with rounds to go
C14_Witness ==
    /\ strat["s2"].state = "FAILED" /\ upc["s2"] = "done"
    /\ cfg["s2"].instrument = cfg["s1"].instrument
    /\ upc["s1"] = "wait" /\ ~uCancel["s1"] /\ "s1" \in subscribers[cfg["s1"].instrument]
    /\ queue["s1"] # <<>> /\ Head(queue["s1"]).seq = rounds
    /\ is_running /\ bpc = "sleep" /\ rounds < MaxRounds /\ ~shutdown_event

-----------------------------------------------------------------------------
(* Force-close price *)

\* C15: when shutdown has completed, every strategy that was force-closed has exit
\* reason MARKET_CLOSE and its exit price is the final value of its instrument in
\* the broadcaster's price map
C15_ForceClosedAtFinalPrice ==
    spc = "done" =>
        \A s \in Strategies :
            strat[s].state = "FORCE_CLOSED" =>
                /\ strat[s].exit_reason = "MARKET_CLOSE"
                /\ strat[s].exit_price = current_prices[cfg[s].instrument]

-----------------------------------------------------------------------------
(* Realized PnL *)

\* a strategy that entered at price e with quantity q
Position(e, q) == [st |-> [NewStrategy EXCEPT !.state = "OPEN", !.entry_price = e],
                   c |-> [quantity |-> q]]

\* C16: a strategy that has exited (CLOSED or FORCE_CLOSED) has
\* pnl = (exit_price - entry_price) * quantity, with no sign flip: entry 100,
\* quantity 10 and exit 105 give +50, exit 95 gives -50; a strategy that has not
\* exited has pnl = 0
C16_RealizedPnl ==
    /\ \A s \in Strategies :
          IF is_closed(strat[s])
          THEN strat[s].pnl = (strat[s].exit_price - strat[s].entry_price) * cfg[s].quantity
          ELSE strat[s].pnl = 0
    /\ exit(Position(100, 10).st, Position(100, 10).c, 105, "TARGET_HIT").pnl = 50
    /\ exit(Position(100, 10).st, Position(100, 10).c, 95, "STOP_LOSS").pnl = -50

\* one strategy has exited at a loss and the other at a profit
C16_Witness ==
    /\ is_closed(strat["s1"]) /\ strat["s1"].pnl = -2 /\ cfg["s1"].quantity = 2
    /\ is_closed(strat["s2"]) /\ strat["s2"].pnl = 1

-----------------------------------------------------------------------------
(* Final statistics *)

\* the strategies of the engine that have exited
Exits == {s \in strategies : is_closed(strat[s])}

-----------------------------------------------------------------------------
(* The evaluator on its own: one call of evaluate or of _normalize_time on   *)
(* a text                                                                   *)

\* tokens of a condition text explored
MaxWords == 4
\* characters of a time text explored
MaxLen == 6

T_pr1ice == <<"p", "r", "1", "i", "c", "e">>

Vocabulary == <<T_price, T_time, T_pr1ice, <<"x">>, <<"0">>, <<"1", "5", ":", "2", "0">>,
                <<">">>, T_or, T_AND>>

RECURSIVE Join(_)
\* " ".join(ws)
Join(ws) == IF Len(ws) = 1 THEN ws[1] ELSE ws[1] \o <<" ">> \o Join(Tail(ws))

\* the condition texts: up to MaxWords tokens of the vocabulary, a blank between two
Conditions ==
    UNION {{Join([i \in 1..n |-> Vocabulary[f[i]]]) : f \in [1..n -> 1..Len(Vocabulary)]} :
              n \in 1..MaxWords}

\* the time texts: up to MaxLen digits, colons and blanks
TimeTexts == UNION {[1..n -> {"1", "5", ":", " "}] : n \in 0..MaxLen}

engineVars == <<cfg, strat, exits, is_running, subKeys, subscribers, current_prices,
                queue, putters, bpc, bSub, bCancel, bInstrs, bQueues, bTick, rounds, gen,
                rpc, active, upc, uCancel, consumed, spc, shutdown_event, sIter, slog,
                stats>>

CallInit ==
    /\ Created /\ cfg["s2"].instrument = "NIFTY"
    /\ ev \in {[pc |-> "call", text |-> t, price |-> p] :
                  t \in Conditions \cup TimeTexts, p \in Prices}

\* _normalize_time(text), and _normalize_time of its result
Normalize ==
    /\ ev.pc = "call"
    /\ ev' = [pc |-> "normalized", text |-> ev.text, price |-> ev.price,
              out |-> _normalize_time(ev.text),
              again |-> _normalize_time(_normalize_time(ev.text))]
    /\ UNCHANGED engineVars

\* evaluate(text, price)
Call ==
    /\ ev.pc = "call"
    /\ \E now \in Times :
          ev' = [pc |-> "evaluated", text |-> ev.text, price |-> ev.price,
                 result |-> evaluate(ev.text, ev.price, now)]
    /\ UNCHANGED engineVars

CallNext == Normalize \/ Call

CallSpec == CallInit /\ [][CallNext]_vars

\* a token made of something else than digits, comparison characters and colons,
\* that is none of the words of the grammar: an identifier other than price and
\* time, or a character that is not allowed
Foreign(w) ==
    /\ \E i \in 1..Len(w) : ~IsDigit(w[i]) /\ w[i] \notin {">", "<", "=", "!", ":"}
    /\ w \notin {T_price, T_time, T_and, T_or, T_AND, T_OR}

\* the text after the substitutions of _safe_eval
Substituted(t) ==
    _normalize_time(replace(replace(t, <<" ">> \o T_AND \o <<" ">>, <<" ">> \o T_and \o <<" ">>),
                            <<" ">> \o T_OR \o <<" ">>, <<" ">> \o T_or \o <<" ">>))

\* C18: the evaluator fails closed: evaluate returns false for every text with a
\* token outside the allow-list, and for every text that passes the filter and
\* cannot be evaluated
C18_FailsClosed ==
    ev.pc = "evaluated" =>
        /\ (\E i \in 1..Len(Tokens(ev.text)) : Foreign(Tokens(ev.text)[i])) => ev.result = FALSE
        /\ \A now \in Times :
              eval(Substituted(ev.text), [price |-> ev.price, time |-> now]).raised
                  => ev.result = FALSE

-----------------------------------------------------------------------------
(* Time normalization *)

\* the token is an HH:MM literal: one or two digits, a colon, two digits
IsTimeLiteral(w) == w # <<>> /\ TimeMatch(w) = Len(w)

\* every colon of the text stands in an HH:MM literal that is a token of its own
ColonsInLiterals(t) ==
    \A i \in 1..Len(Tokens(t)) :
        LET w == Tokens(t)[i]
        IN (\E k \in 1..Len(w) : w[k] = ":") => IsTimeLiteral(w)

RECURSIVE Minutes(_)
\* the text with every token that is an HH:MM literal replaced by hours*60+minutes,
\* and everything else as it is
Minutes(t) ==
    IF t = <<>> THEN <<>>
    ELSE IF Head(t) = " " THEN <<" ">> \o Minutes(Tail(t))
    ELSE LET w == Head(Tokens(t))
         IN (IF IsTimeLiteral(w)
             THEN str(int(SubSeq(w, 1, Len(w) - 3)) * 60 + int(From(w, Len(w) - 1)))
             ELSE w) \o Minutes(From(t, Len(w) + 1))

\* C19 as stated: normalizing an already normalized text changes nothing, whatever
\* the text
C19_NormalizeIdempotent == ev.pc = "normalized" => ev.again = ev.out

\* C19: "09:15" becomes 555 and "15:20" becomes 920; in a text whose colons all stand
\* in HH:MM literals that are tokens of their own, every literal is replaced by
\* hours*60+minutes, all other text is unchanged, and normalizing the result again
\* changes nothing
C19_NormalizeLiterals ==
    /\ _normalize_time(<<"0", "9", ":", "1", "5">>) = <<"5", "5", "5">>
    /\ _normalize_time(<<"1", "5", ":", "2", "0">>) = <<"9", "2", "0">>
    /\ ev.pc = "normalized" /\ ColonsInLiterals(ev.text) =>
          /\ ev.out = Minutes(ev.text)
          /\ ev.again = ev.out

\* "time > 15:20" has become "time > 920"
C19_Witness ==
    /\ ev.pc = "normalized"
    /\ ev.text = Join(<<T_time, <<">">>, <<"1", "5", ":", "2", "0">>>>)
    /\ ev.out = Join(<<T_time, <<">">>, <<"9", "2", "0">>>>)
    /\ ev.again = ev.out

-----------------------------------------------------------------------------
(* The strategy state machine *)

\* the transitions of Strategy.state: enter, exit and mark_failed
Transitions == {<<"CREATED", "OPEN">>, <<"OPEN", "CLOSED">>, <<"OPEN", "FORCE_CLOSED">>,
                <<"CREATED", "FAILED">>, <<"OPEN", "FAILED">>}

\* C20: the state of a strategy only changes CREATED->OPEN, OPEN->CLOSED,
\* OPEN->FORCE_CLOSED, or into FAILED from CREATED or OPEN; CLOSED, FORCE_CLOSED and
\* FAILED are absorbing
C20_StateMachine ==
    [][\A s \in Strategies :
          /\ strat'[s].state # strat[s].state =>
                <<strat[s].state, strat'[s].state>> \in Transitions
          /\ strat[s].state \in {"CLOSED", "FORCE_CLOSED", "FAILED"} =>
                strat'[s].state = strat[s].state]_vars

\* a strategy that has exited and a strategy that has failed are still handled: the
\* unit of the force-closed one has a tick to take, after the cancel it did not get
C20_Witness ==
    /\ strat["s1"].state = "FORCE_CLOSED" /\ upc["s1"] = "wait" /\ ~uCancel["s1"]
    /\ queue["s1"] # <<>> /\ Head(queue["s1"]) # Sentinel
    /\ strat["s2"].state = "FAILED" /\ strat["s2"].entry_price # NoPrice

----------------------------------------------------------------------------
----------------------------------------------------------------------------
(* Exit reason and terminal state *)

\* the unit takes a tick from its queue
TakesTick(s) ==
    /\ upc[s] = "wait" /\ queue[s] # <<>> /\ Head(queue[s]) # Sentinel
    /\ queue'[s] = Tail(queue[s])

----------------------------------------------------------------------------
(* Writers of a Strategy record *)

\* a step of the unit of s: it takes the next item of its queue, or the
\* CancelledError reaches it at its wait; the coroutine of _shutdown does not move
OwnStep(s) ==
    /\ upc[s] = "wait" /\ spc' = spc /\ slog' = slog
    /\ \/ queue[s] # <<>> /\ queue'[s] = Tail(queue[s])
       \/ uCancel[s] /\ ~uCancel'[s]

\* the step of _shutdown in which stop() returns and force_close_all runs
ForceCloseAllStep == spc \in {"wait", "stop"} /\ spc' = "gather"

\* C23 as stated: every change of a strategy's runtime fields is made by a step of
\* that strategy's own unit
C23_SingleWriter ==
    [][\A s \in Strategies : strat'[s] # strat[s] => OwnStep(s)]_vars

\* C23, amended: a strategy's runtime fields are changed by a step of its own unit,
\* or by force_close_all in _shutdown, which exits a strategy of the active list
\* that is OPEN at the instrument's current price with reason MARKET_CLOSE
C23_UnitOrForceCloseAll ==
    [][\A s \in Strategies :
          strat'[s] # strat[s] =>
              \/ OwnStep(s)
              \/ /\ ForceCloseAllStep
                 /\ s \in active /\ is_open(strat[s])
                 /\ strat'[s] = exit(strat[s], cfg[s],
                                     get_current_price(current_prices, cfg[s].instrument),
                                     "MARKET_CLOSE")]_vars

\* force_close_all has closed s1, whose unit is still at its wait, and s2 was
\* closed by its own unit
C23_Witness ==
    /\ spc = "gather"
    /\ strat["s1"].state = "FORCE_CLOSED" /\ upc["s1"] = "wait"
    /\ strat["s2"].state = "CLOSED" /\ upc["s2"] = "done"

----------------------------------------------------------------------------
(* Subscriber membership changing during a broadcast round.  The registry *)
(* already holds the keys of both instruments: two further strategies of   *)
(* the file, one per instrument, took the tick of round 1, exited on it    *)
(* and ended, and a defaultdict keeps the key of a set that has become     *)
(* empty.  The units of s1 and s2 have been created and subscribe at any   *)
(* point from here on.                                                     *)

JoinInit ==
    /\ cfg \in Fleets
    /\ strat = [s \in Strategies |-> NewStrategy]
    /\ exits = [s \in Strategies |-> 0]
    /\ is_running = TRUE
    /\ subKeys = <<"NIFTY", "BANKNIFTY">>
    /\ subscribers = [i \in Symbols |-> {}]
    /\ current_prices \in [Instruments -> Walk(BasePrice)]
    /\ queue = [s \in Strategies |-> <<>>]
    /\ putters = [s \in Strategies |-> <<>>]
    /\ bpc = "sleep"
    /\ bSub = "blocked"
    /\ bCancel = FALSE
    /\ bInstrs = <<>>
    /\ bQueues = <<>>
    /\ bTick = NoTick
    /\ rounds = 1
    /\ gen = [i \in Symbols |-> IF i \in Instruments THEN 1 ELSE 0]
    /\ rpc = "gather"
    /\ active = Strategies
    /\ upc = [s \in Strategies |-> "new"]
    /\ uCancel = [s \in Strategies |-> FALSE]
    /\ consumed = [s \in Strategies |-> [n |-> 0, from |-> 0, at |-> 0]]
    /\ spc = "wait"
    /\ shutdown_event = FALSE
    /\ sIter = IdleIter
    /\ slog = <<>>
    /\ stats = NoStats
    /\ ev = NoCall

JoinNext ==
    \/ BWake
    \/ BStep
    \/ BResume
    \/ BTimeout
    \/ BCancelled
    \/ RunDone
    \/ \E s \in Strategies : UStart(s)
    \/ \E s \in Strategies : UStep(s)
    \/ \E s \in Strategies : UCancelled(s)
    \/ Shutdown
    \/ StopResume
    \/ GatherDone
    \/ TeardownDone

JoinSpec == JoinInit /\ [][JoinNext]_vars

\* a round has been started and has not reached its asyncio.sleep
RoundInProgress == bpc \in {"round", "blocked"}

\* the round is not ended by a change of membership: it goes on until it has
\* handled every instrument of its snapshot, unless the task is cancelled
RoundGoesOn ==
    RoundInProgress /\ ~RoundInProgress' => bpc' = "sleep" \/ (bCancel /\ bpc' = "done")

\* every queue registered for an instrument when its tick is generated has the tick
\* enqueued at once or is in the snapshot the round still has to go through
SnapshotTaken ==
    \A i \in Instruments :
        gen'[i] # gen[i] =>
            \A q \in subscribers[i] :
                \/ q \in {bQueues'[k] : k \in 1..Len(bQueues')} /\ bTick'.instrument = i
                \/ /\ queue'[q] = Append(queue[q], MarketTick(i, current_prices'[i], gen'[i]))
                   /\ bQueues' = <<>> => bTick' \in {NoTick, MarketTick(i, current_prices'[i], gen'[i])}

\* the snapshot is gone through in order: the round leaves a queue of the snapshot
\* only by enqueueing the tick into it or by the timeout of the bounded wait, and
\* does not turn to another tick before, unless the task is cancelled
SnapshotServed ==
    /\ bQueues' # bQueues /\ bTick' = bTick /\ bTick # NoTick =>
          /\ bQueues' = Tail(bQueues)
          /\ queue'[Head(bQueues)] = Append(queue[Head(bQueues)], bTick) \/ Drop(Head(bQueues))
    /\ bQueues # <<>> /\ bTick' # bTick => bCancel /\ bpc' = "done"

----------------------------------------------------------------------------
(* A strategy on an instrument that has no base price *)

\* s1 follows NIFTY, s2 an instrument that config.BASE_PRICES does not list
FeedFleets ==
    {f \in [Strategies -> [instrument : Symbols,
                           entry_condition : {Cond("price", ">", 1), Cond("price", "<", 2)},
                           exit_condition : {Cond("price", "<", 2), Cond("price", ">", 5)},
                           quantity : {1, 2},
                           max_loss : {1, 5},
                           max_profit : {1, 5}]] :
        /\ f["s1"] = Strategy("NIFTY", Cond("price", ">", 1), Cond("price", "<", 2), 2, 5, 5)
        /\ f["s2"] \in {Strategy(i, Cond("price", "<", 2), Cond("price", ">", 5), 1, 1, 1) :
                            i \in Symbols \ Instruments}}

FeedInit ==
    /\ cfg \in FeedFleets
    /\ strat = [s \in Strategies |-> NewStrategy]
    /\ exits = [s \in Strategies |-> 0]
    /\ is_running = FALSE
    /\ subKeys = <<>>
    /\ subscribers = [i \in Symbols |-> {}]
    /\ current_prices = [i \in Instruments |-> BasePrice]
    /\ queue = [s \in Strategies |-> <<>>]
    /\ putters = [s \in Strategies |-> <<>>]
    /\ bpc = "created"
    /\ bSub = "blocked"
    /\ bCancel = FALSE
    /\ bInstrs = <<>>
    /\ bQueues = <<>>
    /\ bTick = NoTick
    /\ rounds = 0
    /\ gen = [i \in Symbols |-> 0]
    /\ rpc = "created"
    /\ active = {}
    /\ upc = [s \in Strategies |-> "none"]
    /\ uCancel = [s \in Strategies |-> FALSE]
    /\ consumed = [s \in Strategies |-> [n |-> 0, from |-> 0, at |-> 0]]
    /\ spc = "wait"
    /\ shutdown_event = FALSE
    /\ sIter = IdleIter
    /\ slog = <<>>
    /\ stats = NoStats
    /\ ev = NoCall

FeedSpec == FeedInit /\ [][Next]_vars

\* C25: whatever instruments the strategies subscribe to, an instrument without a
\* base price included, the broadcaster once started stays RUNNING until stop() is
\* called: before the shutdown its task has not ended and is_running is set, so that
\* the subscribers of the other instruments go on being served
C25_FeedRunsUntilStop ==
    ~shutdown_event => bpc # "done" /\ (bpc # "created" => is_running)

====
